---- MODULE Spec2Model ----
(***************************************************************************)
(* Model of frequent_direction/fd_sketch.py: the class FrequentDirection   *)
(* (a streaming Frequent Directions matrix sketch) and the two error       *)
(* metrics calculateError and squaredFrobeniusNorm.                        *)
(*                                                                         *)
(* Numerical representation.  The SVD of a real matrix is not computable   *)
(* in TLA+ in general, so the input rows are drawn from a family on which  *)
(* numpy's svd is exact integer arithmetic.  For row length L the family   *)
(* is the multiples c * u_d of the orthonormal basis of R^L                *)
(*     u_d = e_d                      for d <= L-2,                        *)
(*     u_(L-1) = (e_(L-1) + e_L)/sqrt 2,                                   *)
(*     u_L     = (e_(L-1) - e_L)/sqrt 2      (L >= 2; u_1 = e_1 if L = 1)  *)
(* and a row is the record [len, dir, sq] with sq = c^2 (sq = 0, dir = 0   *)
(* is the all-zero row).  The last direction has entries that sum to zero. *)
(* For such a buffer B, B^T B is diagonal in the basis, the squared        *)
(* singular values are the per-direction sums of sq, and the rows of       *)
(* mat_v are the basis vectors in descending order of those sums.  The     *)
(* order of equal singular values is not fixed by numpy: it is a           *)
(* nondeterministic choice here.  Floating-point rounding noise is not     *)
(* modelled: arithmetic is exact.                                          *)
(***************************************************************************)
EXTENDS Integers, Sequences, FiniteSets, TLC

\* Bounds of the model.
MaxEll == 1
MaxK == 2
MaxM == 3
MaxAdds == 4
\* Squared norms c^2 of the input rows (0 is the all-zero row).
SqValues == {0, 1, 3}

\* Python's None for the integer field M.
NoneM == -1
\* Python's None for the array field mat_b and for a missing return value.
NoneMat == [cols |-> -1, rows |-> <<>>]
\* Python's None for the list field zero_rows.
NoneList == <<-1>>

VARIABLES ell, k, M, N, mat_b, zero_rows, op, outcome, result, gram, shrinks, calls,
          fresh, generic, last_shrunk

\* The fields of a FrequentDirection object are ell, k, M, N, mat_b, zero_rows.
\* What is recorded about the calls: the last call, how it ended, what it
\* returned, and (history) the Gram diagonal of the rows stored since
\* initialize, the shrinks and the returned add_sample calls since __init__,
\* the buffer indices written since the last shrink, whether the rows so far
\* were in general position (see GenericRow, GenericDec), and the buffer as
\* the most recent shrink left it (NoneMat before the first).
vars == <<ell, k, M, N, mat_b, zero_rows, op, outcome, result, gram, shrinks, calls,
          fresh, generic, last_shrunk>>

Min(a, b) == IF a <= b THEN a ELSE b

\* list(range(n)): the 0-based indices 0..n-1 in order.
range(n) == [i \in 1..n |-> i - 1]

ZeroRow == [dir |-> 0, sq |-> 0]

\* np.zeros([r, c])
zeros(r, c) == [cols |-> c, rows |-> [i \in 1..r |-> ZeroRow]]

\* The rows a caller can pass: length 0..maxm, each a multiple of a basis
\* vector of its length.
RowInputs(maxm) ==
    {[len |-> L, dir |-> 0, sq |-> 0] : L \in 0..maxm}
    \cup {r \in [len : 1..maxm, dir : 1..maxm, sq : SqValues \ {0}] : r.dir <= r.len}

\* __init__(ell, k): the fields after construction.  kin = NoneM stands for
\* k=None.  No check is made of ell or k.
FrequentDirection(ein, kin) ==
    [ell |-> ein,
     k |-> IF kin = NoneM THEN 2 * ein + 1 ELSE kin,
     M |-> NoneM, N |-> 0, mat_b |-> NoneMat, zero_rows |-> NoneList]

\* The entries of basis vector u_d of R^c sum to zero: the last direction,
\* (e_(c-1) - e_c)/sqrt 2.
SumsToZero(d, c) == c >= 2 /\ d = c

\* What numpy stores for mat_b[i, :] = row in a buffer of c columns: the row
\* itself when len(row) = c; a row of length 1 is broadcast to all c columns
\* (value * ones), which is the zero row for value 0 and sqrt(2)*value*u_1
\* for c = 2.  Other lengths raise ValueError (CanAssign is false).
CanAssign(row, c) == row.len = c \/ row.len = 1
Broadcast(row, c) ==
    IF row.len = c THEN [dir |-> row.dir, sq |-> row.sq]
    ELSE IF row.sq = 0 THEN ZeroRow
    ELSE [dir |-> 1, sq |-> c * row.sq]
\* The broadcast rows the basis of R^c can represent (an input bound).
Representable(row, c) == row.len = c \/ row.sq = 0 \/ c = 2

\* Sum of sq over the rows of direction d: the d-th diagonal entry of
\* B^T B in the basis, i.e. a squared singular value of B.
RECURSIVE ColMass(_, _)
ColMass(rows, d) ==
    IF rows = <<>> THEN 0
    ELSE (IF Head(rows).dir = d THEN Head(rows).sq ELSE 0) + ColMass(Tail(rows), d)

\* The sequences of n distinct directions of dirs in descending order of
\* mass; equal masses in any order.
RECURSIVE SortedDirs(_, _, _)
SortedDirs(mass, dirs, n) ==
    IF n = 0 THEN {<<>>}
    ELSE UNION {{<<d>> \o t : t \in SortedDirs(mass, dirs \ {d}, n - 1)} :
                   d \in {x \in dirs : \A y \in dirs : mass[x] >= mass[y]}}

\* Rows in general position: non-zero rows of the buffer's length ...
GenericRow(row, c) == row.sq > 0 /\ row.len = c
\* ... whose decompositions have full rank, the e largest singular values
\* above the (e+1)-th, and no right singular vector among those e whose
\* entries sum to zero.
GenericDec(dec, e, c) ==
    /\ \A i \in 1..Len(dec.v) : dec.sigma2[i] > 0
    /\ \A i \in 1..e : dec.sigma2[i] > dec.sigma2[e + 1] /\ ~SumsToZero(dec.v[i], c)

\* Mutant of svd: as many singular pairs as columns, whatever the row count
\* (full_matrices=True with vec_sigma padded).
svd_FullMatrices(mat) ==
    LET mass == [d \in 1..mat.cols |-> ColMass(mat.rows, d)]
    IN  {[sigma2 |-> [i \in 1..mat.cols |-> mass[v[i]]], v |-> v] :
            v \in SortedDirs(mass, 1..mat.cols, mat.cols)}

\* ln.svd(mat, full_matrices=False): the possible (vec_sigma ** 2, mat_v), each
\* of min(rows, cols) entries; mat_v is given by the direction of each row.
svd(mat) ==
    LET mass == [d \in 1..mat.cols |-> ColMass(mat.rows, d)]
        K == Min(Len(mat.rows), mat.cols)
    IN  {[sigma2 |-> [i \in 1..K |-> mass[v[i]]], v |-> v] :
            v \in SortedDirs(mass, 1..mat.cols, K)}

\* Mutant of ShrinkWith: the threshold taken one index too far,
\* vec_sigma[ell + 1] (the last entry when there is none).
ShrinkWith_NextIndex(dec, e, c) ==
    LET squared_sv_center == dec.sigma2[Min(e + 2, Len(dec.v))]
        d2(i) == dec.sigma2[i] - squared_sv_center
        sigma_tilda2(i) == IF d2(i) < 0 THEN 0 ELSE d2(i)
    IN  [cols |-> c,
         rows |-> [i \in 1..Len(dec.v) |->
                     IF sigma_tilda2(i) = 0 THEN ZeroRow
                     ELSE [dir |-> dec.v[i], sq |-> sigma_tilda2(i)]]]

\* Mutant of ShrinkWith: the threshold is not subtracted (sigma_tilda is
\* vec_sigma itself).
ShrinkWith_NoSubtract(dec, e, c) ==
    [cols |-> c,
     rows |-> [i \in 1..Len(dec.v) |->
                 IF dec.sigma2[i] = 0 THEN ZeroRow
                 ELSE [dir |-> dec.v[i], sq |-> dec.sigma2[i]]]]

\* Lines 80-86 for one decomposition: subtract vec_sigma[ell] ** 2, clamp at
\* zero, and form diagflat(sigma_tilda) . mat_v, a K x cols matrix.
ShrinkWith(dec, e, c) ==
    LET squared_sv_center == dec.sigma2[e + 1]
        d2(i) == dec.sigma2[i] - squared_sv_center
        sigma_tilda2(i) == IF d2(i) < 0 THEN 0 ELSE d2(i)
    IN  [cols |-> c,
         rows |-> [i \in 1..Len(dec.v) |->
                     IF sigma_tilda2(i) = 0 THEN ZeroRow
                     ELSE [dir |-> dec.v[i], sq |-> sigma_tilda2(i)]]]

\* Mutant of TooFewRows: the comparison made strict.
TooFewRows_Strict(e, kk, n) == e + kk > n

\* Line 51: get_result refuses while ell + k >= N.
TooFewRows(e, kk, n) == e + kk >= n

\* Mutant of NextN: N incremented only by the calls that do not shrink.
NextN_OnlyWithoutShrink(n, shrunk) == IF shrunk THEN n ELSE n + 1

\* Line 90: N after an add_sample that returns; shrunk tells whether the
\* call performed a shrink.
NextN(n, shrunk) == n + 1

\* round(np.sum(row), 7) == 0 for a row c * u_d with c^2 an integer: the
\* row is zero, or the entries of u_d sum to zero.
RowSumIsZero(row, c) == row.sq = 0 \/ SumsToZero(row.dir, c)

\* np.nonzero([...])[0].tolist(): the 0-based indices of the rows whose sum
\* rounds to zero, ascending.
RECURSIVE ZeroRowsFrom(_, _)
ZeroRowsFrom(mat, i) ==
    IF i > Len(mat.rows) THEN <<>>
    ELSE (IF RowSumIsZero(mat.rows[i], mat.cols) THEN <<i - 1>> ELSE <<>>)
         \o ZeroRowsFrom(mat, i + 1)
ZeroRowsOf(mat) == ZeroRowsFrom(mat, 1)

\* mat_b[i, :] = row for the 0-based index i.
SetRow(mat, i, row) == [mat EXCEPT !.rows[i + 1] = Broadcast(row, mat.cols)]

\* The Gram diagonal after one more stored row.
GramAdd(g, r) == IF r.sq = 0 THEN g ELSE [g EXCEPT ![r.dir] = @ + r.sq]

is_initialized == M # NoneM

\* Mutant of Reset: the constructor re-invoked without k.
Reset_DefaultK(e, kk) == FrequentDirection(e, NoneM)

\* Line 57: self.__init__(self.ell, self.k), the fields after the reset.
Reset(e, kk) == FrequentDirection(e, kk)

Abs(x) == IF x < 0 THEN 0 - x ELSE x
Max(S) == CHOOSE x \in S : \A y \in S : x >= y

\* calculateError(mat_a, mat_b) = ||A^T A - B^T B||_2.  Both Gram matrices
\* are diagonal in the basis, so the spectral norm of their difference is
\* the largest absolute difference of the diagonal entries.
calculateError(a, b) ==
    Max({Abs(ColMass(a.rows, d) - ColMass(b.rows, d)) : d \in 1..a.cols})

\* squaredFrobeniusNorm(mat_a): the sum of the squared entries, which is the
\* sum of the squared norms of the rows.
RECURSIVE SumSq(_)
SumSq(rows) == IF rows = <<>> THEN 0 ELSE Head(rows).sq + SumSq(Tail(rows))
squaredFrobeniusNorm(a) == SumSq(a.rows)

\* A matrix with the Gram matrix of the rows fed since initialize (row d is
\* sqrt(gram[d]) * u_d): the A of the error bound, up to an orthogonal
\* transformation of its rows, which changes neither A^T A nor ||A||_F.
FedMatrix ==
    [cols |-> Len(gram), rows |-> [d \in 1..Len(gram) |-> [dir |-> d, sq |-> gram[d]]]]

\* The state after FrequentDirection(ein, kin) returns.
Constructed(ein, kin) ==
    /\ LET e == FrequentDirection(ein, kin)
       IN  /\ ell = e.ell /\ k = e.k /\ M = e.M /\ N = e.N
           /\ mat_b = e.mat_b /\ zero_rows = e.zero_rows
    /\ op = "__init__"
    /\ outcome = "ok"
    /\ result = NoneMat
    /\ gram = <<>>
    /\ shrinks = 0
    /\ calls = 0
    /\ fresh = {}
    /\ generic = TRUE
    /\ last_shrunk = NoneMat

Init == \E ein \in 0..MaxEll, kin \in {NoneM} \cup 1..MaxK : Constructed(ein, kin)

\* A call that raises exc after changing no field but (possibly) M.
Raise(name, exc, newM) ==
    /\ op' = name
    /\ outcome' = exc
    /\ M' = newM
    /\ result' = NoneMat
    /\ UNCHANGED <<ell, k, N, mat_b, zero_rows, gram, shrinks, calls, fresh, generic, last_shrunk>>

\* add_sample(row), lines 60-90, with initialize (lines 37-48) inlined.
add_sample(row) ==
    LET needInit == ~is_initialized
        \* initialize: self.M = len(row) comes before the check of ell
        M1 == IF needInit THEN row.len ELSE M
        N1 == IF needInit THEN 0 ELSE N
        b1 == IF needInit THEN zeros(ell + k, M1) ELSE mat_b
        z1 == IF needInit THEN range(ell + k) ELSE zero_rows
        g1 == IF needInit THEN [d \in 1..M1 |-> 0] ELSE gram
    IN  IF needInit /\ ell >= M1
          THEN Raise("add_sample", "ValueError", M1)
        ELSE IF z1 = NoneList \/ b1 = NoneMat
          THEN Raise("add_sample", "TypeError", M1)
        ELSE IF z1 = <<>>
          THEN Raise("add_sample", "IndexError", M1)
        ELSE IF ~CanAssign(row, b1.cols)
          THEN Raise("add_sample", "ValueError", M1)
        ELSE
          LET i == z1[1]
              b2 == SetRow(b1, i, row)
              z2 == Tail(z1)
              g2 == GramAdd(g1, b2.rows[i + 1])
              gen == generic /\ GenericRow(row, b1.cols)
          IN  /\ Representable(row, b1.cols)
              /\ op' = "add_sample"
              /\ result' = NoneMat
              /\ M' = M1
              /\ gram' = g2
              /\ UNCHANGED <<ell, k>>
              /\ IF z2 # <<>>
                   THEN /\ mat_b' = b2
                        /\ zero_rows' = z2
                        /\ N' = NextN(N1, FALSE)
                        /\ outcome' = "ok"
                        /\ calls' = calls + 1
                        /\ fresh' = fresh \cup {i}
                        /\ generic' = gen
                        /\ UNCHANGED <<shrinks, last_shrunk>>
                 ELSE IF ell >= Min(Len(b2.rows), b2.cols)
                   \* vec_sigma[self.ell] is out of range: the row is written, the
                   \* list is emptied, N is not incremented
                   THEN /\ mat_b' = b2
                        /\ zero_rows' = z2
                        /\ N' = N1
                        /\ outcome' = "IndexError"
                        /\ fresh' = fresh \cup {i}
                        /\ generic' = gen
                        /\ UNCHANGED <<shrinks, calls, last_shrunk>>
                 ELSE \E dec \in svd(b2) :
                        LET nb == ShrinkWith(dec, ell, b2.cols)
                        IN  /\ mat_b' = nb
                            /\ zero_rows' = ZeroRowsOf(nb)
                            /\ N' = NextN(N1, TRUE)
                            /\ outcome' = "ok"
                            /\ calls' = calls + 1
                            /\ shrinks' = shrinks + 1
                            /\ fresh' = {}
                            /\ generic' = (gen /\ GenericDec(dec, ell, b2.cols))
                            /\ last_shrunk' = nb

\* Mutant of DoReset: the engine is reset whatever the argument.
DoReset_Always(initialize) == TRUE

\* Line 56: the engine is reset only when the caller asks for it.
DoReset(initialize) == initialize

\* get_result(initialize), lines 50-58.
get_result(initialize) ==
    IF TooFewRows(ell, k, N)
      THEN Raise("get_result", "ValueError", M)
    ELSE IF mat_b = NoneMat
      THEN Raise("get_result", "TypeError", M)
    ELSE
      /\ op' = "get_result"
      /\ outcome' = "ok"
      /\ result' = [cols |-> mat_b.cols,
                    rows |-> SubSeq(mat_b.rows, 1, Min(ell, Len(mat_b.rows)))]
      /\ IF DoReset(initialize)
           THEN LET e == Reset(ell, k)
                IN  /\ ell' = e.ell /\ k' = e.k /\ M' = e.M /\ N' = e.N
                    /\ mat_b' = e.mat_b /\ zero_rows' = e.zero_rows
                    /\ gram' = <<>> /\ shrinks' = 0 /\ calls' = 0 /\ fresh' = {}
                    /\ generic' = TRUE /\ last_shrunk' = NoneMat
         ELSE UNCHANGED <<ell, k, M, N, mat_b, zero_rows, gram, shrinks, calls, fresh,
                          generic, last_shrunk>>

AddSample == \E row \in RowInputs(MaxM) : N < MaxAdds /\ add_sample(row)

GetResult == \E initialize \in BOOLEAN : get_result(initialize)

Next == AddSample \/ GetResult

Spec == Init /\ [][Next]_vars

\* The same engine on a wider input range: ell = MaxEll + 1, k = MaxK, rows
\* of length up to MaxM + 1 and one more add_sample.
InitWide == \E kin \in 1..MaxK : Constructed(MaxEll + 1, kin)

AddSampleWide == \E row \in RowInputs(MaxM + 1) : N < MaxAdds + 1 /\ add_sample(row)

NextWide == AddSampleWide \/ GetResult

SpecWide == InitWide /\ [][NextWide]_vars
(***************************************************************************)
(* Claims                                                                  *)
(***************************************************************************)

\* C1: a get_result call raises exactly when N <= ell + k and returns a
\* result exactly when N > ell + k (N as it is when the call is made); on an
\* engine whose every returned add_sample was counted (N = calls) that is:
\* it raises after ell + k adds and returns after ell + k + 1.
C1_GetResultFailsIffTooFewRows ==
    [][op' = "get_result" =>
         /\ (outcome' = "ValueError") <=> (N <= ell + k)
         /\ (outcome' = "ok" /\ result' # NoneMat) <=> (N > ell + k)
         /\ outcome' \in {"ok", "ValueError"}]_vars

\* C1 witness: get_result has returned a result with N = ell + k + 1.
C1_Witness ==
    op = "get_result" /\ outcome = "ok" /\ result # NoneMat /\ N = ell + k + 1 /\ calls = N
\* C2: once the engine is initialized with ell, k >= 1 and ell < M, the
\* buffer has exactly ell + k rows and M columns in every reachable state.
C2_BufferShapeFixed ==
    (ell >= 1 /\ k >= 1 /\ mat_b # NoneMat) =>
        Len(mat_b.rows) = ell + k /\ mat_b.cols = M

\* C3: an add_sample on an engine without buffer (ell >= 1) either fails
\* because len(row) <= ell and leaves the engine uninitialized, or has
\* len(row) > ell, initializes the engine and stores the row as on a new
\* engine.
C3_FailedInitLeavesUninitialized ==
    [][\A row \in RowInputs(MaxM) :
         (ell >= 1 /\ mat_b = NoneMat /\ N < MaxAdds /\ add_sample(row)) =>
            IF row.len <= ell
              THEN outcome' = "ValueError" /\ ~is_initialized' /\ mat_b' = NoneMat
              ELSE outcome' = "ok" /\ M' = row.len /\ N' = 1
                   /\ Len(mat_b'.rows) = ell + k]_vars

\* C4 (as claimed): for ell, k >= 1 and ell < M, after exactly ell + k + 1
\* add_sample calls with rows in general position exactly one shrink has
\* been performed.
C4_ExactlyOneShrink ==
    (ell >= 1 /\ k >= 1 /\ ell < M /\ generic /\ calls = ell + k + 1) => shrinks = 1

\* C4 (amended): for ell >= 1, k >= 2 and M >= ell + 2, after exactly
\* ell + k + 1 add_sample calls (any rows) exactly one shrink has been
\* performed; for k = 1 or M = ell + 1 and rows in general position the
\* (ell + k + 1)-th call performs a second shrink.
C4_ExactlyOneShrinkWithSlack ==
    (ell >= 1 /\ k >= 1 /\ ell < M /\ calls = ell + k + 1) =>
        /\ (k >= 2 /\ M >= ell + 2) => shrinks = 1
        /\ (generic /\ (k = 1 \/ M = ell + 1)) => shrinks = 2

\* C4 witness: ell + k + 1 rows in general position were added to an engine
\* with k >= 2 and M >= ell + 2.
C4_Witness ==
    ell >= 1 /\ k >= 2 /\ M >= ell + 2 /\ generic /\ calls = ell + k + 1 /\ shrinks = 1

\* C6: the buffer of an initialized engine has at most ell + k rows and
\* exactly M columns in every reachable state.
C6_BufferBounded ==
    mat_b # NoneMat => Len(mat_b.rows) <= ell + k /\ mat_b.cols = M

\* C6 witness: two shrinks have occurred and the buffer is smaller than it
\* was allocated.
C6_Witness ==
    mat_b # NoneMat /\ shrinks >= 2 /\ Len(mat_b.rows) < ell + k
\* C5: when get_result returns B for the rows A fed so far (ell >= 1; none
\* of the rows fed has entries that cancel to a zero sum),
\* calculateError(A, B) <= squaredFrobeniusNorm(A) / ell.
C5_ErrorBound ==
    (/\ ell >= 1 /\ op = "get_result" /\ outcome = "ok" /\ gram # <<>>
     /\ \A d \in 1..Len(gram) : SumsToZero(d, Len(gram)) => gram[d] = 0) =>
        calculateError(FedMatrix, result) * ell <= squaredFrobeniusNorm(FedMatrix)

\* C7: N is the number of add_sample calls that have returned since the
\* engine was constructed (or reset): 0 before any, and every add_sample that
\* returns increases N by exactly 1, with or without a shrink.
C7_NCountsAdds ==
    /\ [](N = calls)
    /\ [][(op' = "add_sample" /\ outcome' = "ok") =>
            N' = N + 1 /\ calls' = calls + 1]_vars

\* C7 witness: adds with and without a shrink have returned.
C7_Witness ==
    N = calls /\ shrinks >= 1 /\ fresh # {} /\ N = ell + k + 1

\* C8: add_sample on an initialized engine (ell >= 1) with a row whose
\* length differs from M raises and leaves mat_b, N and zero_rows unchanged.
C8_MismatchedRowRejected ==
    [][\A row \in RowInputs(MaxM) :
         (ell >= 1 /\ mat_b # NoneMat /\ row.len # M /\ N < MaxAdds /\ add_sample(row)) =>
            outcome' # "ok" /\ UNCHANGED <<mat_b, N, zero_rows>>]_vars

\* C9: a get_result(initialize=True) that returns leaves the engine as
\* FrequentDirection(ell, k) constructs it: not initialized, ell and k kept,
\* M, N, mat_b and zero_rows cleared.  Every later call reads only these
\* fields (and the history is cleared with them), so what follows is what
\* follows on a new engine.
C9_ResetRestoresConstructedState ==
    [][(get_result(TRUE) /\ outcome' = "ok") =>
         /\ ~is_initialized'
         /\ ell' = ell /\ k' = k
         /\ M' = NoneM /\ N' = 0 /\ mat_b' = NoneMat /\ zero_rows' = NoneList
         /\ gram' = <<>> /\ shrinks' = 0 /\ calls' = 0 /\ fresh' = {} /\ generic'
         /\ last_shrunk' = NoneMat]_vars

\* C9 witness: get_result(initialize=True) has returned a result and reset
\* the engine.
C9_Witness ==
    op = "get_result" /\ outcome = "ok" /\ result # NoneMat /\ ~is_initialized

\* C10: no engine with ell <= 0 accepts an add_sample call.
C10_NoEngineWithNonPositiveEll ==
    (op = "add_sample" /\ outcome = "ok") => ell >= 1

\* C11: in every reachable state of an engine with ell >= 1, is_initialized()
\* is true if and only if the buffer has been allocated.
C11_InitializedIffBufferAllocated ==
    ell >= 1 => (is_initialized <=> mat_b # NoneMat)

\* C12: in every reachable state of an initialized engine (ell >= 1), every
\* index in zero_rows refers to a buffer row whose entries are all zero.
C12_FreeRowsAreZero ==
    (ell >= 1 /\ mat_b # NoneMat) =>
        \A j \in 1..Len(zero_rows) : mat_b.rows[zero_rows[j] + 1].sq = 0

\* C13: whenever get_result returns (ell >= 1, no reset), the ell
\* rows returned are those the most recent shrink produced, and no
\* add_sample since has written a row of index < ell.
C13_ResultRowsFromLastShrink ==
    (ell >= 1 /\ op = "get_result" /\ outcome = "ok" /\ mat_b # NoneMat) =>
        /\ \A i \in fresh : i >= ell
        /\ result.rows = SubSeq(last_shrunk.rows, 1, ell)

\* C14: whenever get_result returns (ell >= 1, no reset), every buffer row of
\* index >= ell is a free all-zero row, so the rows it cuts off are zero.
C14_CutOffRowsAreZero ==
    (ell >= 1 /\ op = "get_result" /\ outcome = "ok" /\ mat_b # NoneMat) =>
        \A i \in (ell + 1)..Len(mat_b.rows) :
            /\ mat_b.rows[i].sq = 0
            /\ \E j \in 1..Len(zero_rows) : zero_rows[j] = i - 1

\* C15: every shrink (ell >= 1, k >= 1, M > ell) leaves at most half as many
\* occupied rows as were occupied immediately before it (the buffer was
\* full: every row of it was occupied).
C15_ShrinkHalvesOccupiedRows ==
    [][(ell >= 1 /\ k >= 1 /\ shrinks' = shrinks + 1) =>
          2 * (Len(mat_b'.rows) - Len(zero_rows')) <=
              (IF mat_b = NoneMat THEN ell + k ELSE Len(mat_b.rows))]_vars

\* C16: an initialized engine with ell >= 1, k >= 1 and ell < M has a free
\* row whenever an operation has returned, and no add_sample has failed for
\* lack of one.
C16_AlwaysAFreeRow ==
    (ell >= 1 /\ k >= 1 /\ ell < M /\ mat_b # NoneMat) =>
        /\ zero_rows # <<>>
        /\ outcome # "IndexError"

\* C16 witness: add_sample has returned from a second shrink that left every
\* row of index < ell occupied.
C16_Witness ==
    /\ ell >= 1 /\ k >= 1 /\ ell < M /\ mat_b # NoneMat
    /\ op = "add_sample" /\ outcome = "ok" /\ shrinks >= 2 /\ fresh = {}
    /\ \A i \in 1..ell : mat_b.rows[i].sq > 0
    /\ \A j \in 1..Len(zero_rows) : zero_rows[j] >= ell

\* C17: a get_result call that is made without reset, or that fails, leaves
\* ell, k, M, N, the buffer and the free-row list unchanged.
C17_GetResultWithoutResetChangesNothing ==
    [][\A initialize \in BOOLEAN :
          (get_result(initialize) /\ (~initialize \/ outcome' # "ok")) =>
              UNCHANGED <<ell, k, M, N, mat_b, zero_rows>>]_vars

\* C17 witness: get_result has returned the result of an engine that holds
\* rows added since its last shrink, and the engine was not reset.
C17_Witness ==
    /\ op = "get_result" /\ outcome = "ok" /\ ell >= 1
    /\ mat_b # NoneMat /\ N > ell + k /\ fresh # {}
====
